---- MODULE Spec2Model ----
(***************************************************************************)
(* Model of the sampling core of conky's OpenBSD back end                   *)
(* (src/data/os/openbsd.cc): update_net_stats, which turns per-interface    *)
(* byte counters into running totals and rates, and update_cpu_usage,       *)
(* which turns kernel tick counters into utilization fractions.             *)
(*                                                                         *)
(* Number representations.  TLC integers are 32 bits wide, the program's    *)
(* are 64.  A `long long' of update_net_stats is kept as two limbs          *)
(* [hi, lo] of radix 2^16 (value hi * 65536 + lo, 0 <= lo < 65536), which   *)
(* is exact for |value| < 2^47.  A u_int64_t difference of                  *)
(* update_cpu_usage is kept as [wrap, v] (value wrap * 2^64 + v), which is  *)
(* exact for operands below 2^31.  A float or double quotient is kept as    *)
(* an exact fraction; rounding to nearest keeps 0, 1 and the order, which   *)
(* is all the properties below look at.                                     *)
(***************************************************************************)
EXTENDS Integers, Sequences, FiniteSets, TLC

----------------------------------------------------------------------------
(* Bounds of the model *)

\* update_net_stats calls explored in one behaviour
MaxCalls == 3
\* entries of one getifaddrs list
MaxIfa == 2
\* largest hw.ncpu the kernel reports
MaxCpu == 2

----------------------------------------------------------------------------
(* State *)

\* update_net_stats: the net_stat of each interface; then history: calls
\* made, the elapsed time of the last call, what the last call saw of each
\* interface (and, for a sample, what the call before it was), and for each
\* interface the readings of its last sample (cur) and of the sample before
\* that (prev)
VARIABLES net_stats, net_calls, net_delta, net_seen, net_base

\* update_cpu_usage: the statics and info fields; the position in the
\* function (cpu_pc, cpu_i) and its return value; then history: the slot
\* the last step sampled and how its total compared, whether the call in
\* progress has altered a slot, the ticks last fetched for each slot, and
\* whether no tick counter has gone backwards so far
VARIABLES init_cpu, cpu_count, cpu_loads, cpu_usage, cpu_pc, cpu_i, cpu_ret,
          cpu_n, cpu_case, cpu_changed, kern, monotone

netvars == <<net_stats, net_calls, net_delta, net_seen, net_base>>

cpuvars == <<init_cpu, cpu_count, cpu_loads, cpu_usage, cpu_pc, cpu_i, cpu_ret,
             cpu_n, cpu_case, cpu_changed, kern, monotone>>

----------------------------------------------------------------------------
(* long long arithmetic on two limbs *)

Base == 65536

Norm(h, l) == [hi |-> h + (l \div Base), lo |-> l % Base]

Add(a, b) == Norm(a.hi + b.hi, a.lo + b.lo)

Sub(a, b) == Norm(a.hi - b.hi, a.lo - b.lo)

Less(a, b) == a.hi < b.hi \/ (a.hi = b.hi /\ a.lo < b.lo)

Leq(a, b) == a = b \/ Less(a, b)

Zero == [hi |-> 0, lo |-> 0]

\* a small non-negative integer as a long long
Small(n) == Norm(0, n)

\* (long long)4294967295U
UINT32_MAX == [hi |-> 65535, lo |-> 65535]

----------------------------------------------------------------------------
(* update_net_stats *)

\* the interfaces getifaddrs reports
Ifaces == {"em0"}

\* ifi_ibytes / ifi_obytes readings (u_int64_t in struct if_data):
\* 0, 5, 2^32 - 6, 2^32 - 1 and 2^33
ByteVals == { Zero, Small(5), [hi |-> 65535, lo |-> 65530], UINT32_MAX,
              [hi |-> 131072, lo |-> 0] }

\* readings that fit the 32-bit width the wrap rule assumes
Fits32(x) == Leq(Zero, x) /\ Leq(x, UINT32_MAX)

\* current_update_time - last_update_time, in microseconds
Deltas == {50, 100, 101}

\* the 0.0001 s threshold, in microseconds
EpsilonMicros == 100

Families == {"AF_LINK", "AF_INET"}

\* a double quotient bytes / seconds
Speed(bytes, delta) == IF bytes = Zero THEN [num |-> Zero, den |-> 1]
                       ELSE [num |-> bytes, den |-> delta]

ZeroSpeed == [num |-> Zero, den |-> 1]

\* a struct net_stat as get_net_stat creates it
ZeroStat == [up |-> 0, recv |-> Zero, trans |-> Zero,
             last_read_recv |-> Zero, last_read_trans |-> Zero,
             recv_speed |-> ZeroSpeed, trans_speed |-> ZeroSpeed]

\* RecvDelta without the branch for a reading below the stored one
RecvDelta_nowrap(last_read_recv, r) == Sub(r, last_read_recv)

\* the amount added to ns->recv for reading r
RecvDelta(last_read_recv, r) ==
    IF Less(r, last_read_recv)
    THEN Add(Sub(UINT32_MAX, last_read_recv), r)
    ELSE Sub(r, last_read_recv)

\* TransDelta adding the raw reading instead of its difference
TransDelta_raw(last_read_trans, t) == t

\* the amount added to ns->trans for reading t
TransDelta(last_read_trans, t) ==
    IF Less(t, last_read_trans)
    THEN Add(Sub(UINT32_MAX, last_read_trans), t)
    ELSE Sub(t, last_read_trans)

\* NetDown also forgetting the stored readings
NetDown_reset(ns) == [ns EXCEPT !.up = 0, !.last_read_recv = Zero,
                                !.last_read_trans = Zero]

\* the branch of an interface that is not up
NetDown(ns) == [ns EXCEPT !.up = 0]

\* the body of the loop for one ifaddrs entry e, on its net_stat ns
NetEntry(ns, e, delta) ==
    IF e.up
    THEN IF e.family # "AF_LINK"
         THEN [ns EXCEPT !.up = 1]
         ELSE LET last_recv  == ns.recv
                  last_trans == ns.trans
                  recv  == Add(ns.recv, RecvDelta(ns.last_read_recv, e.ibytes))
                  trans == Add(ns.trans, TransDelta(ns.last_read_trans, e.obytes))
              IN  [up |-> 1, recv |-> recv, trans |-> trans,
                   last_read_recv |-> e.ibytes, last_read_trans |-> e.obytes,
                   recv_speed |-> Speed(Sub(recv, last_recv), delta),
                   trans_speed |-> Speed(Sub(trans, last_trans), delta)]
    ELSE NetDown(ns)

\* the loop over the getifaddrs list
RECURSIVE NetLoop(_, _, _)
NetLoop(stats, ifap, delta) ==
    IF ifap = << >> THEN stats
    ELSE LET e == Head(ifap)
         IN  NetLoop([stats EXCEPT ![e.name] = NetEntry(stats[e.name], e, delta)],
                     Tail(ifap), delta)

\* what one call did to an interface: "skip" (delta too small), "fail"
\* (getifaddrs failed), "absent", "down", "up" (no link-layer entry) or
\* "sample" (link-layer entry of an up interface), with the readings used
NoEntry(k) == [kind |-> k, r |-> Zero, t |-> Zero, after |-> "other"]

RECURSIVE Seen(_, _)
Seen(name, ifap) ==
    IF ifap = << >> THEN NoEntry("absent")
    ELSE LET e    == Head(ifap)
             rest == Seen(name, Tail(ifap))
         IN  IF e.name # name THEN rest
             ELSE IF e.up /\ e.family = "AF_LINK"
                  THEN [kind |-> "sample", r |-> e.ibytes, t |-> e.obytes,
                        after |-> "other"]
             ELSE IF rest.kind = "sample" THEN rest
             ELSE IF e.up THEN NoEntry("up")
             ELSE NoEntry("down")

\* for a sample, the call it follows: "down" (the interface was down),
\* "replay" (a sample with the same readings and elapsed time) or "other"
After(now, delta, before, delta_before) ==
    IF now.kind # "sample" THEN now
    ELSE IF before.kind = "down" THEN [now EXCEPT !.after = "down"]
    ELSE IF before.kind = "sample" /\ before.r = now.r /\ before.t = now.t
            /\ delta_before = delta
         THEN [now EXCEPT !.after = "replay"]
    ELSE now

\* the family and interface name of each entry of a getifaddrs list: an
\* interface has at most one link-layer entry
IfaShapes ==
    { s \in UNION { [1..n -> [name : Ifaces, family : Families]] : n \in 0..MaxIfa } :
        \A i, j \in DOMAIN s :
           (i # j /\ s[i].name = s[j].name) =>
              ~(s[i].family = "AF_LINK" /\ s[j].family = "AF_LINK") }

\* the getifaddrs lists: ifa_flags is the interface's, shared by all its
\* entries, and only the link-layer entry carries if_data
IfaLists ==
    { [i \in DOMAIN s |->
         [name |-> s[i].name, family |-> s[i].family, up |-> flags[s[i].name],
          ibytes |-> IF s[i].family = "AF_LINK" THEN data[s[i].name].r ELSE Zero,
          obytes |-> IF s[i].family = "AF_LINK" THEN data[s[i].name].t ELSE Zero]] :
      s \in IfaShapes, flags \in [Ifaces -> BOOLEAN],
      data \in [Ifaces -> [r : ByteVals, t : ByteVals]] }

NoReading == [r |-> Zero, t |-> Zero]

NetInit ==
    /\ net_stats = [n \in Ifaces |-> ZeroStat]
    /\ net_calls = 0
    /\ net_delta = 0
    /\ net_seen = [n \in Ifaces |-> NoEntry("none")]
    /\ net_base = [n \in Ifaces |-> [cur |-> NoReading, prev |-> NoReading]]

\* TooSoon with a strict comparison
TooSoon_strict(delta) == delta < EpsilonMicros

\* delta <= 0.0001
TooSoon(delta) == delta <= EpsilonMicros

update_net_stats ==
    /\ net_calls < MaxCalls
    /\ net_calls' = net_calls + 1
    /\ \E delta \in Deltas :
         /\ net_delta' = delta
         /\ \/ /\ TooSoon(delta)
               /\ net_seen' = [n \in Ifaces |-> NoEntry("skip")]
               /\ UNCHANGED <<net_stats, net_base>>
            \/ /\ ~TooSoon(delta)
               /\ net_seen' = [n \in Ifaces |-> NoEntry("fail")]
               /\ UNCHANGED <<net_stats, net_base>>
            \/ /\ ~TooSoon(delta)
               /\ \E ifap \in IfaLists :
                    LET seen == [n \in Ifaces |-> Seen(n, ifap)]
                    IN  /\ net_stats' = NetLoop(net_stats, ifap, delta)
                        /\ net_seen' = [n \in Ifaces |->
                              After(seen[n], delta, net_seen[n], net_delta)]
                        /\ net_base' = [n \in Ifaces |->
                              IF seen[n].kind = "sample"
                              THEN [cur  |-> [r |-> seen[n].r, t |-> seen[n].t],
                                    prev |-> net_base[n].cur]
                              ELSE net_base[n]]

NextNet == update_net_stats /\ UNCHANGED cpuvars

----------------------------------------------------------------------------
(* update_cpu_usage *)

\* number of CPU states and the index of the idle one (<sys/sched.h>)
CPUSTATES == 6

CP_IDLE == 5

\* <<busy, idle>> tick counts a fetch can return: totals 10, 2500, 2500
\* and 5000
TickPairs == { <<0, 10>>, <<2490, 10>>, <<0, 2500>>, <<2500, 2500>> }

\* the values of kern.cp_time or of kern.cp_time2 for one CPU
TickVectors ==
    { [j \in 0..(CPUSTATES - 1) |->
         IF j = 0 THEN p[1] ELSE IF j = CP_IDLE THEN p[2] ELSE 0] :
      p \in TickPairs }

ZeroTicks == [j \in 0..(CPUSTATES - 1) |-> 0]

\* for (j = 0; j < CPUSTATES; ++j) total += cp_time[j]
RECURSIVE SumTo(_, _)
SumTo(cp, j) == IF j < 0 THEN 0 ELSE cp[j] + SumTo(cp, j - 1)

Total(cp) == SumTo(cp, CPUSTATES - 1)

\* Used with the idle ticks added instead of subtracted
Used_plus(cp) == Total(cp) + cp[CP_IDLE]

\* used = total - cp_time[CP_IDLE]
Used(cp) == Total(cp) - cp[CP_IDLE]

\* a - b in u_int64_t: wrap = 1 stands for 2^64 + v
Sub64(a, b) == IF a >= b THEN [wrap |-> 0, v |-> a - b]
               ELSE [wrap |-> 1, v |-> a - b]

U64Zero == [wrap |-> 0, v |-> 0]

\* (float)x: exact below 2^24; 2^64 + v with -2^39 < v < 0 rounds to 2^64
ToFloat(x) == IF x.wrap = 1 THEN [wrap |-> 1, v |-> 0] ELSE x

RECURSIVE GCD(_, _)
GCD(a, b) == IF b = 0 THEN a ELSE GCD(b, a % b)

\* a float as the fraction (num / den) * 2^(64 * exp)
FZero == [num |-> 0, den |-> 1, exp |-> 0]

\* a / b in float, b # 0
FDiv(a, b) ==
    IF a.wrap = 0 /\ a.v = 0 THEN FZero
    ELSE IF a.wrap = 1 /\ b.wrap = 1 THEN [num |-> 1, den |-> 1, exp |-> 0]
    ELSE IF a.wrap = 1 THEN [num |-> 1, den |-> b.v, exp |-> 1]
    ELSE IF b.wrap = 1 THEN [num |-> a.v, den |-> 1, exp |-> -1]
    ELSE [num |-> a.v \div GCD(a.v, b.v), den |-> b.v \div GCD(a.v, b.v), exp |-> 0]

\* 0 <= x <= 1
InUnit(x) == x.num = 0 \/ x.exp = -1 \/ (x.exp = 0 /\ x.num <= x.den)

\* a struct cpu_load as calloc leaves it
ZeroLoad == [old_used |-> 0, old_total |-> 0]

\* total - cpu_loads[n].old_total, the difference the sample is judged by
TickDelta(total, old_total) == Sub64(total, old_total)

\* the value stored in info.cpu_usage[n]
Usage(load, used, total) ==
    IF TickDelta(total, load.old_total) # U64Zero
    THEN FDiv(ToFloat(Sub64(used, load.old_used)),
              ToFloat(Sub64(total, load.old_total)))
    ELSE FZero

\* NewLoad updating the baseline only when the total moved
NewLoad_guarded(load, used, total) ==
    IF total = load.old_total THEN load
    ELSE [old_used |-> used, old_total |-> total]

\* the value stored in cpu_loads[n]
NewLoad(load, used, total) == [old_used |-> used, old_total |-> total]

CpuInit ==
    /\ init_cpu = 0
    /\ cpu_count = 0
    /\ cpu_loads = << >>
    /\ cpu_usage = << >>
    /\ cpu_pc = "idle"
    /\ cpu_i = 0
    /\ cpu_ret = -1
    /\ cpu_n = -1
    /\ cpu_case = "none"
    /\ cpu_changed = FALSE
    /\ kern = [n \in 0..MaxCpu |-> ZeroTicks]
    /\ monotone = TRUE

\* how the new total compares with the stored one
Case(total, old_total) == IF total = old_total THEN "zero"
                          ELSE IF total < old_total THEN "reset" ELSE "advance"

\* the sample of slot n from the fetched ticks cp, on arrays loads and usage
CpuSlot(n, cp, loads, usage, changed) ==
    LET used  == Used(cp)
        total == Total(cp)
        u     == Usage(loads[n], used, total)
        l     == NewLoad(loads[n], used, total)
    IN  /\ cpu_usage' = [usage EXCEPT ![n] = u]
        /\ cpu_loads' = [loads EXCEPT ![n] = l]
        /\ cpu_n' = n
        /\ cpu_case' = Case(total, loads[n].old_total)
        /\ cpu_changed' = (changed \/ u # usage[n] \/ l # loads[n])
        /\ kern' = [kern EXCEPT ![n] = cp]
        /\ monotone' = (monotone /\ \A j \in DOMAIN cp : cp[j] >= kern[n][j])

\* entry of update_cpu_usage up to the sample of the aggregate slot 0
update_cpu_usage_entry ==
    /\ cpu_pc = "idle"
    /\ \E ncpu \in 0..MaxCpu :
         LET count == IF init_cpu # 0 THEN cpu_count
                      ELSE IF ncpu = 0 THEN 1 ELSE ncpu
             loads == IF init_cpu # 0 THEN cpu_loads
                      ELSE [n \in 0..count |-> ZeroLoad]
             usage == IF init_cpu # 0 THEN cpu_usage
                      ELSE [n \in 0..count |-> FZero]
         IN  /\ (init_cpu # 0 => ncpu = 0)
             /\ init_cpu' = 1
             /\ cpu_count' = count
             /\ \/ /\ cpu_loads' = loads
                   /\ cpu_usage' = usage
                   /\ cpu_ret' = 1
                   /\ cpu_n' = -1
                   /\ cpu_case' = "none"
                   /\ cpu_changed' = FALSE
                   /\ UNCHANGED <<cpu_pc, cpu_i, kern, monotone>>
                \/ /\ \E cp \in TickVectors : CpuSlot(0, cp, loads, usage, FALSE)
                   /\ cpu_pc' = "loop"
                   /\ cpu_i' = 0
                   /\ cpu_ret' = -1

\* one iteration of the loop over the CPUs
update_cpu_usage_loop ==
    /\ cpu_pc = "loop"
    /\ cpu_i < cpu_count
    /\ \/ /\ cpu_ret' = 1
          /\ cpu_pc' = "idle"
          /\ cpu_n' = -1
          /\ cpu_case' = "none"
          /\ UNCHANGED <<init_cpu, cpu_count, cpu_loads, cpu_usage, cpu_i,
                         cpu_changed, kern, monotone>>
       \/ /\ \E cp \in TickVectors :
                CpuSlot(cpu_i + 1, cp, cpu_loads, cpu_usage, cpu_changed)
          /\ cpu_i' = cpu_i + 1
          /\ UNCHANGED <<init_cpu, cpu_count, cpu_pc, cpu_ret>>

\* the loop is over: return 0
update_cpu_usage_return ==
    /\ cpu_pc = "loop"
    /\ cpu_i >= cpu_count
    /\ cpu_ret' = 0
    /\ cpu_pc' = "idle"
    /\ cpu_n' = -1
    /\ cpu_case' = "none"
    /\ UNCHANGED <<init_cpu, cpu_count, cpu_loads, cpu_usage, cpu_i,
                   cpu_changed, kern, monotone>>

NextCpu ==
    \/ update_cpu_usage_entry /\ UNCHANGED netvars
    \/ update_cpu_usage_loop /\ UNCHANGED netvars
    \/ update_cpu_usage_return /\ UNCHANGED netvars

vars == <<netvars, cpuvars>>

Init == NetInit /\ CpuInit

\* the network sampler alone
SpecNet == Init /\ [][NextNet]_vars

\* the CPU sampler alone
SpecCpu == Init /\ [][NextCpu]_vars

----------------------------------------------------------------------------
(* Properties of update_net_stats, checked under SpecNet *)

\* the step is a call that sampled interface n (up, link-layer entry,
\* elapsed time above the threshold)
Sampled(n) == net_calls' = net_calls + 1 /\ net_seen'[n].kind = "sample"

\* the delta rule of the byte counters: new - prev, or after a wrap
\* (2^32 - 1 - prev) + new
WrapRule(prev, new) == IF Leq(prev, new) THEN Sub(new, prev)
                       ELSE Add(Sub(UINT32_MAX, prev), new)

TwoPow32Minus6 == [hi |-> 65535, lo |-> 65530]

\* C1: a sample of an up interface's link-layer entry, with previous and new
\* reading of a direction both in 0..2^32-1, adds to that direction's total
\* new - prev when new >= prev and (2^32 - 1 - prev) + new when new < prev
\* (prev = 4294967290, new = 5 adds 10); recv uses last_read_recv and
\* ifi_ibytes only, trans uses last_read_trans and ifi_obytes only.
C1_WrapDelta ==
    [][\A n \in Ifaces : Sampled(n) =>
         /\ (Fits32(net_stats[n].last_read_recv) /\ Fits32(net_seen'[n].r)) =>
               /\ net_stats'[n].recv =
                     Add(net_stats[n].recv,
                         WrapRule(net_stats[n].last_read_recv, net_seen'[n].r))
               /\ (net_stats[n].last_read_recv = TwoPow32Minus6
                     /\ net_seen'[n].r = Small(5)) =>
                        net_stats'[n].recv = Add(net_stats[n].recv, Small(10))
         /\ (Fits32(net_stats[n].last_read_trans) /\ Fits32(net_seen'[n].t)) =>
               /\ net_stats'[n].trans =
                     Add(net_stats[n].trans,
                         WrapRule(net_stats[n].last_read_trans, net_seen'[n].t))
               /\ (net_stats[n].last_read_trans = TwoPow32Minus6
                     /\ net_seen'[n].t = Small(5)) =>
                        net_stats'[n].trans = Add(net_stats[n].trans, Small(10))
      ]_vars

\* a sample in which recv wrapped from 4294967290 to 5 while trans advanced
\* without wrapping from 5 to 4294967290
C1_Witness ==
    \E n \in Ifaces :
       /\ net_seen[n].kind = "sample"
       /\ net_base[n].prev = [r |-> TwoPow32Minus6, t |-> Small(5)]
       /\ net_base[n].cur = [r |-> Small(5), t |-> TwoPow32Minus6]
       /\ net_stats[n].last_read_recv = Small(5)
       /\ net_stats[n].last_read_trans = TwoPow32Minus6

\* C2: a call with elapsed time at or below 0.0001 s (0.0001 s included)
\* changes no field of any interface's net_stat.
C2_DegenerateInterval ==
    [][(net_calls' = net_calls + 1 /\ net_delta' <= EpsilonMicros) =>
          net_stats' = net_stats]_vars

\* a call with elapsed time exactly 0.0001 s has returned while an interface
\* holds a non-zero rate from an earlier sample
C2_Witness ==
    /\ net_delta = EpsilonMicros
    /\ \A n \in Ifaces : net_seen[n].kind = "skip"
    /\ \E n \in Ifaces : /\ net_stats[n].recv_speed # ZeroSpeed
                          /\ net_stats[n].up = 1

\* C5: the first sample of a just created net_stat (all fields zero) leaves
\* recv and trans as they were and reports zero rates.
C5_FirstSampleZero ==
    [][\A n \in Ifaces : (Sampled(n) /\ net_stats[n] = ZeroStat) =>
          /\ net_stats'[n].recv = net_stats[n].recv
          /\ net_stats'[n].trans = net_stats[n].trans
          /\ net_stats'[n].recv_speed = ZeroSpeed
          /\ net_stats'[n].trans_speed = ZeroSpeed]_vars

\* C6: a call that sees the interface down sets up to 0 and leaves recv,
\* trans, last_read_recv and last_read_trans alone; the readings of the
\* last sample therefore stay stored however many down calls follow, and
\* the next sample computes its deltas from them.
C6_DownKeepsCounters ==
    [][\A n \in Ifaces :
          /\ (net_calls' = net_calls + 1 /\ net_seen'[n].kind = "down") =>
                /\ net_stats'[n].up = 0
                /\ net_stats'[n].recv = net_stats[n].recv
                /\ net_stats'[n].trans = net_stats[n].trans
                /\ net_stats'[n].last_read_recv = net_stats[n].last_read_recv
                /\ net_stats'[n].last_read_trans = net_stats[n].last_read_trans
          /\ (Sampled(n) /\ net_seen[n].kind = "down") =>
                /\ net_stats'[n].recv =
                      Add(net_stats[n].recv,
                          WrapRule(net_base[n].cur.r, net_seen'[n].r))
                /\ net_stats'[n].trans =
                      Add(net_stats[n].trans,
                          WrapRule(net_base[n].cur.t, net_seen'[n].t))
      ]_vars

\* a sample taken right after a down call, resuming from non-zero readings
\* stored before the interface went down, with both totals advancing
C6_Witness ==
    \E n \in Ifaces :
       /\ net_seen[n].kind = "sample"
       /\ net_seen[n].after = "down"
       /\ net_base[n].prev.r = Small(5)
       /\ net_base[n].prev.t = Small(5)
       /\ net_base[n].cur.r = TwoPow32Minus6
       /\ net_base[n].cur.t = UINT32_MAX
       /\ net_stats[n].recv = TwoPow32Minus6
       /\ net_stats[n].trans = UINT32_MAX

\* C8: a sample that repeats the readings and the elapsed time of the sample
\* made by the call just before leaves recv and trans unchanged and reports
\* zero rates.
C8_ReplayZeroDelta ==
    [][\A n \in Ifaces :
          (/\ Sampled(n)
           /\ net_seen[n].kind = "sample"
           /\ net_seen'[n].r = net_seen[n].r
           /\ net_seen'[n].t = net_seen[n].t
           /\ net_delta' = net_delta) =>
             /\ net_stats'[n].recv = net_stats[n].recv
             /\ net_stats'[n].trans = net_stats[n].trans
             /\ net_stats'[n].recv_speed = ZeroSpeed
             /\ net_stats'[n].trans_speed = ZeroSpeed]_vars

\* the second of two identical samples with non-zero readings has been made
C8_Witness ==
    \E n \in Ifaces :
       /\ net_seen[n].kind = "sample"
       /\ net_seen[n].after = "replay"
       /\ net_seen[n].r # Zero
       /\ net_seen[n].t # Zero
       /\ net_stats[n].recv # Zero

\* C9: over any sequence of calls, recv and trans never decrease from one
\* call to the next, whatever 64-bit readings the kernel returns.
C9_TotalsNeverDecrease ==
    [][\A n \in Ifaces : /\ Leq(net_stats[n].recv, net_stats'[n].recv)
                          /\ Leq(net_stats[n].trans, net_stats'[n].trans)]_vars

----------------------------------------------------------------------------
(* Properties of update_cpu_usage, checked under SpecCpu *)

\* cpu_loads[n] before the step (calloc'ed zero on the first call)
OldLoad(n) == IF n \in DOMAIN cpu_loads THEN cpu_loads[n] ELSE ZeroLoad

\* the step sampled slot n
SlotSampled(n) == cpu_n' = n /\ n \in DOMAIN cpu_loads'

\* C3: when the new total of a slot equals its stored old_total, the
\* utilization reported for the slot is 0 and old_used and old_total are
\* replaced by the new used and total.
C3_ZeroDiffGuard ==
    [][\A n \in 0..MaxCpu :
          (SlotSampled(n) /\ Total(kern'[n]) = OldLoad(n).old_total) =>
             /\ cpu_usage'[n] = FZero
             /\ cpu_loads'[n].old_used = Used(kern'[n])
             /\ cpu_loads'[n].old_total = Total(kern'[n])]_vars

\* a per-CPU slot has just been sampled with an unchanged total of 2500
\* and used ticks of 0
C3_Witness ==
    /\ cpu_n >= 1
    /\ cpu_case = "zero"
    /\ cpu_usage[cpu_n] = FZero
    /\ cpu_loads[cpu_n] = [old_used |-> 0, old_total |-> 2500]

\* C4: when the new total of a slot is below its stored old_total, the tick
\* delta the sample is judged by is 0 and old_total becomes the new total.
C4_ResetDeltaZero ==
    [][\A n \in 0..MaxCpu :
          (SlotSampled(n) /\ Total(kern'[n]) < OldLoad(n).old_total) =>
             /\ TickDelta(Total(kern'[n]), OldLoad(n).old_total) = U64Zero
             /\ cpu_loads'[n].old_total = Total(kern'[n])]_vars

\* C7: as long as no tick counter has decreased between fetches, every
\* cpu_usage entry, aggregate and per CPU, lies in 0..1.
C7_UsageInUnit ==
    monotone => \A n \in DOMAIN cpu_usage : InUnit(cpu_usage[n])

\* a call has returned 0 with monotone counters, the aggregate slot at a
\* fraction strictly between 0 and 1 and a per-CPU slot at 1
C7_Witness ==
    /\ monotone
    /\ cpu_pc = "idle"
    /\ cpu_ret = 0
    /\ cpu_usage[0].num > 0
    /\ cpu_usage[0].num < cpu_usage[0].den
    /\ \E n \in 1..cpu_count : cpu_usage[n] = [num |-> 1, den |-> 1, exp |-> 0]

\* C10: a call that returns 1 leaves every cpu_loads slot and every
\* cpu_usage entry as it was before the call.
C10_FailureLeavesState ==
    (cpu_pc = "idle" /\ cpu_ret = 1) => ~cpu_changed

====
